---- MODULE Spec2Model ----
(***************************************************************************)
(* RA-of-the-Month leaderboard (src/app.py): the score mapper              *)
(* (calculate_scores), the score combiner (combine_scores), the feed       *)
(* aggregator (fetch_all_metrics) and the manual-score store as driven by  *)
(* the Streamlit page (main / render_admin_section).                       *)
(*                                                                         *)
(* Percentages are integers (the code rounds and casts them to int); the   *)
(* float bin edges of pd.cut are kept exactly by working in tenths.        *)
(***************************************************************************)
EXTENDS Integers, Sequences, FiniteSets, TLC

VARIABLES
    df,             \* SpecScore: the table handed to calculate_scores / its result
    scored,         \* SpecScore: TRUE once calculate_scores has run on df
    completion_feed,\* SpecFetch: rows of 01_monthly_completion_checks.sql
    quality_feed,   \* SpecFetch: rows of 02_monthly_quality_checks_V1.sql
    interval_feed,  \* SpecFetch: rows of the schedule (interval) query
    completion_cols,\* SpecFetch: column names of the completion feed
    feed_errors,    \* SpecFetch: the queries of run_sql_file that fail
    cf_feed,        \* SpecFetch: rows of the cashflow statistics query
    ans_feed,       \* SpecFetch: rows of the answer statistics query
    completion_table,\* SpecLookup: the completion feed with its own column names
    quality_table,  \* SpecLookup: the quality feed with its own column names
    fetched,        \* SpecFetch: outcome of fetch_all_metrics + calculate_scores
    cache_file,     \* data/cached_leaderboard.csv: the cached scored table
    manual_file,    \* data/manual_scores.json: period -> RA -> triple
    year,           \* sidebar selectbox "Year"
    month,          \* sidebar selectbox "Month"
    shown,          \* the combined table of the last page run
    password,       \* sidebar text input "Password"
    is_admin,       \* st.session_state.is_admin
    rerun,          \* TRUE while a run of main is queued (first load, st.rerun())
    edits,          \* history: number of scores the admin has entered
    last_event,     \* history: the last user event and the last step
    cache_period,   \* history: the period key of the refresh that wrote cache_file
    disk,           \* SpecSave: the text of the file being written
    writer,         \* SpecSave: the save in progress and its position
    loaded,         \* SpecSave: outcome of the load that follows the save
    today,          \* SpecDate: datetime.now() as <<year, month, day>>
    date_range,     \* SpecDate: the result of get_date_range
    labels,         \* SpecNormalize: df.columns
    passes          \* SpecNormalize: df.columns after each normalize_columns

scoreVars == <<df, scored>>

feedVars ==
    <<completion_feed, quality_feed, interval_feed, completion_cols, feed_errors,
      cf_feed, ans_feed, completion_table, quality_table>>

fetchVars == <<feedVars, fetched>>

pageVars == <<cache_file, manual_file, year, month, shown>>

sessionVars == <<password, is_admin, rerun, edits, last_event, cache_period>>

saveVars == <<disk, writer, loaded>>

toolVars == <<today, date_range, labels, passes>>

vars == <<scoreVars, fetchVars, pageVars, sessionVars, saveVars, toolVars>>

(***************************************************************************)
(* Table cells.  A cell is a number or NaN (pandas' missing value).        *)
(***************************************************************************)
NaN == [isna |-> TRUE, val |-> 0]

Num(v) == [isna |-> FALSE, val |-> v]

\* Series.fillna(0) on one cell
FillNa0(c) == IF c.isna THEN Num(0) ELSE c

(***************************************************************************)
(* Column names and Python's substring test `kw in c.lower()` on them.     *)
(***************************************************************************)
MetricColumns ==
    <<"ra_name", "total_interviews", "complete_count", "pct_complete",
      "interviews_with_issues", "pct_no_quality_flags",
      "interviews_with_imbalance", "pct_lt5pct_imbalance",
      "total_cfs", "total_answers", "avg_answers",
      "pct_within_14_16_days">>

\* the keywords calculate_scores looks for that occur in each column name
KeywordsOf(c) ==
    CASE c = "pct_within_14_16_days" -> {"within", "14_16"}
      [] c = "pct_no_quality_flags"  -> {"quality", "flag"}
      [] c = "pct_complete"          -> {"pct_complete"}
      [] OTHER                       -> {}

Contains(c, kw) == kw \in KeywordsOf(c)

\* next((c for c in cols if c matches), None): the first column of cols that
\* is in the set matching, "" for None
FirstColumn(cols, matching) ==
    LET hit == {i \in 1..Len(cols) : cols[i] \in matching}
    IN  IF hit = {} THEN ""
        ELSE cols[CHOOSE i \in hit : \A j \in hit : i <= j]

(***************************************************************************)
(* pd.cut(x, bins, labels=[1..5]) with the default right=True: label i     *)
(* when bins[i] < x <= bins[i+1], NaN when x is in no interval.  Edges     *)
(* and x are in tenths (59.9 -> 599).                                      *)
(***************************************************************************)
ScheduleBinsShort == <<-10, 599, 699, 799, 899, 999>>

ScheduleBins == <<-10, 599, 699, 799, 899, 1000>>

QualityBinsWhole == <<-10, 800, 850, 900, 950, 1000>>

QualityBins == <<-10, 799, 849, 899, 949, 1000>>

CompletionBinsWhole == <<-10, 600, 700, 800, 900, 1000>>

CompletionBins == <<-10, 599, 699, 799, 899, 1000>>

Cut(c, bins) ==
    LET x == 10 * c.val
        hit == {i \in 1..(Len(bins) - 1) : bins[i] < x /\ x <= bins[i + 1]}
    IN  IF c.isna \/ hit = {} THEN NaN ELSE Num(CHOOSE i \in hit : TRUE)

\* pd.cut(col.fillna(0), bins, labels).astype(float).fillna(0).astype(int)
ScoreOf(c, bins) == FillNa0(Cut(FillNa0(c), bins)).val

IsScheduleCol(c) == Contains(c, "within") \/ Contains(c, "14_16")

IsQualityCol(c) == Contains(c, "quality") /\ Contains(c, "flag")

IsCompletionCol(c) == Contains(c, "pct_complete") \/ c = "pct_complete"

\* one score column of calculate_scores: 0 for every row when the source
\* column is not found, else the binned value of the row's cell
ScoreColumn(t, col, bins, r) ==
    IF col = "" THEN 0 ELSE ScoreOf(t.rows[r][col], bins)

ColumnSet(t) == {t.cols[i] : i \in DOMAIN t.cols}

schedule_score(t, r) ==
    ScoreColumn(t, FirstColumn(t.cols, {c \in ColumnSet(t) : IsScheduleCol(c)}),
                ScheduleBins, r)

quality_score(t, r) ==
    ScoreColumn(t, FirstColumn(t.cols, {c \in ColumnSet(t) : IsQualityCol(c)}),
                QualityBins, r)

completion_score(t, r) ==
    ScoreColumn(t, FirstColumn(t.cols, {c \in ColumnSet(t) : IsCompletionCol(c)}),
                CompletionBins, r)

\* calculate_scores(df): the table with the three score columns added
calculate_scores(t) ==
    [cols |-> t.cols \o <<"schedule_score", "quality_score", "completion_score">>,
     rows |-> [r \in DOMAIN t.rows |->
                 [c \in (DOMAIN t.rows[r]) \cup
                        {"schedule_score", "quality_score", "completion_score"} |->
                    CASE c = "schedule_score"   -> Num(schedule_score(t, r))
                      [] c = "quality_score"    -> Num(quality_score(t, r))
                      [] c = "completion_score" -> Num(completion_score(t, r))
                      [] OTHER                  -> t.rows[r][c]]]]

(***************************************************************************)
(* Feed aggregator: fetch_all_metrics.  Household codes and interview      *)
(* dates are strings, kept as sequences of characters so that the          *)
(* concatenated interview_key is computed as the code computes it.  The    *)
(* empty sequence stands for SQL NULL (no household code is empty).        *)
(***************************************************************************)
EXCLUDED_RAS == {"julie", "cate"}

Null == <<>>

LowerAsIs(name) == name

\* str.lower() on the RA identities of the model
Lower(name) ==
    CASE name = "Julie" -> "julie"
      [] name = "Cate"  -> "cate"
      [] OTHER          -> name

\* the RA identities in the order groupby sorts them (Python string order)
RASortOrder == <<"Cate", "Julie", "amina", "brian", "cate", "julie">>

SortedRAs(S) == SelectSeq(RASortOrder, LAMBDA n : n \in S)

\* (num / den * 100).round(0).astype(int) for den # 0: numpy rounds halves
\* to the even integer
PctRound(num, den) ==
    LET n == 100 * num
        q == n \div den
        r == n - q * den
    IN  IF 2 * r < den THEN q
        ELSE IF 2 * r > den THEN q + 1
        ELSE IF q % 2 = 0 THEN q ELSE q + 1

\* (num / den).round(0).astype(int) for den # 0
RoundDiv(num, den) ==
    LET q == num \div den
        r == num - q * den
    IN  IF 2 * r < den THEN q
        ELSE IF 2 * r > den THEN q + 1
        ELSE IF q % 2 = 0 THEN q ELSE q + 1

\* run_sql_file: the rows of the query, or the empty pd.DataFrame() when
\* the SQL file is missing, the database is disabled or the query raises
run_sql_file(errors, label, rows, empty) ==
    IF label \in errors \/ "disabled" \in errors THEN empty ELSE rows

\* the names of the completion feed's columns after normalize_columns
RA_COLUMN == "interviewer"

STATUS_COLUMN == "status"

HOUSEHOLD_COLUMN == "household_code"

ExcludeNobody(feed) == feed

\* completion_df[~completion_df[ra_col].str.lower().isin(EXCLUDED_RAS)]
ExcludeNonRAs(feed) == SelectSeq(feed, LAMBDA row : Lower(row.ra) \notin EXCLUDED_RAS)

\* groupby(ra_col).agg(total_interviews=(hh_col, 'count'),
\*                     complete_count=(status == 'Complete').sum())
\* 'count' counts the non-null cells of the household column
CompletionAgg(feed) ==
    LET kept == ExcludeNonRAs(feed)
        ras  == SortedRAs({kept[i].ra : i \in DOMAIN kept})
    IN  [k \in DOMAIN ras |->
           [ra_name          |-> ras[k],
            total_interviews |->
                Len(SelectSeq(kept, LAMBDA row : row.ra = ras[k] /\ row.hh # Null)),
            complete_count   |->
                Len(SelectSeq(kept,
                    LAMBDA row : row.ra = ras[k] /\ row.status = "Complete"))]]

\* the aggregation when columns are missing: without a household code
\* column 'count' counts the RA column, without a status column
\* groupby(ra_col).size() is taken and there is no complete_count
CompletionAggOf(feed, cols) ==
    LET kept == ExcludeNonRAs(feed)
        ras  == SortedRAs({kept[i].ra : i \in DOMAIN kept})
        size == [k \in DOMAIN ras |->
                    Len(SelectSeq(kept, LAMBDA row : row.ra = ras[k]))]
    IN  IF STATUS_COLUMN \notin cols
        THEN [k \in DOMAIN ras |-> [ra_name |-> ras[k], total_interviews |-> size[k]]]
        ELSE IF HOUSEHOLD_COLUMN \notin cols
        THEN [k \in DOMAIN ras |->
                [CompletionAgg(feed)[k] EXCEPT !.total_interviews = size[k]]]
        ELSE CompletionAgg(feed)

\* pct_complete of one aggregated row; 0 without a status column
PctComplete(agg, cols) ==
    IF STATUS_COLUMN \in cols THEN PctRound(agg.complete_count, agg.total_interviews)
    ELSE 0

\* quality_df[hh_col_q].astype(str) + '_' + quality_df[int_date_col].astype(str)
InterviewKey(row) == row.hh \o <<"_">> \o row.date

\* groupby(ra_col_q)['interview_key'].nunique() for one RA; the left merge
\* and fillna(0) give 0 to an RA without quality rows
IssuesOf(quality, ra) == Cardinality({InterviewKey(row) : row \in {q \in quality : q.ra = ra}})

\* rows whose issue description contains 'imbalance' (case=False)
ImbalanceRows(quality) == {q \in quality : q.imbalance}

\* the percentage columns derived from the quality feed for one completion row
QualityColumns(agg, quality) ==
    IF quality = {}
    THEN [pct_no_quality_flags |-> 100, pct_lt5pct_imbalance |-> 100]
    ELSE LET issues    == IssuesOf(quality, agg.ra_name)
             imbalance == IssuesOf(ImbalanceRows(quality), agg.ra_name)
         IN  [interviews_with_issues    |-> issues,
              pct_no_quality_flags      |->
                  PctRound(agg.total_interviews - issues, agg.total_interviews),
              interviews_with_imbalance |-> imbalance,
              pct_lt5pct_imbalance      |->
                  PctRound(agg.total_interviews - imbalance, agg.total_interviews)]

\* pct_within_14_16_days of the interval query, left-merged and fillna(0);
\* 0 for every RA when the query fails or returns no rows
ScheduleColumn(ra, interval) ==
    LET mine == {s \in interval.rows : s.ra_name = ra}
    IN  IF interval.failed \/ mine = {} THEN 0
        ELSE LET s == CHOOSE s \in mine : TRUE
             IN  PctRound(s.on_schedule, s.total_interviews)

\* the cashflow and answer statistics share one try block: when either
\* query fails both columns are 0; an empty result gives 0; otherwise the
\* left merge gives the RA's own count, missing when the RA has none
StatsFailedCashflowOnly(cf, ans) == cf.failed

StatsFailed(cf, ans) == cf.failed \/ ans.failed

StatOf(ra, rows) ==
    LET mine == {s \in rows : s.ra_name = ra}
    IN  IF mine = {} THEN NaN ELSE Num((CHOOSE s \in mine : TRUE).total)

\* total_cfs, total_answers and avg_answers of one completion row
StatsColumns(agg, cf, ans) ==
    LET total_cfs == IF StatsFailed(cf, ans) \/ cf.rows = {} THEN Num(0)
                     ELSE FillNa0(StatOf(agg.ra_name, cf.rows))
    IN  IF StatsFailed(cf, ans) \/ ans.rows = {}
        THEN [total_cfs |-> total_cfs, avg_answers |-> Num(0)]
        ELSE [total_cfs     |-> total_cfs,
              total_answers |-> StatOf(agg.ra_name, ans.rows),
              avg_answers   |->
                  Num(RoundDiv(FillNa0(StatOf(agg.ra_name, ans.rows)).val,
                               agg.total_interviews))]

\* the columns of the result, in the order the code adds them
FetchColumns(cols, quality, cf, ans) ==
    <<"ra_name", "total_interviews">>
    \o (IF STATUS_COLUMN \in cols THEN <<"complete_count">> ELSE <<>>)
    \o <<"pct_complete">>
    \o (IF quality = {} THEN <<"pct_no_quality_flags", "pct_lt5pct_imbalance">>
        ELSE <<"interviews_with_issues", "pct_no_quality_flags",
               "interviews_with_imbalance", "pct_lt5pct_imbalance">>)
    \o <<"total_cfs">>
    \o (IF StatsFailed(cf, ans) \/ ans.rows = {} THEN <<>> ELSE <<"total_answers">>)
    \o <<"avg_answers", "pct_within_14_16_days">>

\* one record as a table row: numbers become cells, ra_name stays a string
AsRow(rec) == [c \in DOMAIN rec |-> IF c = "ra_name" THEN rec[c] ELSE Num(rec[c])]

\* the completion feeds the model aggregates have these three columns
AllCompletionCols == {RA_COLUMN, HOUSEHOLD_COLUMN, STATUS_COLUMN}

\* no statistics: the query failed
NoStats == [failed |-> TRUE, rows |-> {}]

Merge(f, g) == [c \in (DOMAIN f) \cup (DOMAIN g) |-> IF c \in DOMAIN f THEN f[c] ELSE g[c]]

\* fetch_all_metrics on the outcomes of run_sql_file for the two feeds, the
\* columns of the completion feed and the three statistics queries:
\* "empty" when there is no completion row or no RA column (or no row of an
\* RA is left), "raised" when a percentage divides by a zero
\* total_interviews (astype(int) of a non-finite value raises), else the
\* table with one row per RA
fetch_all_metrics(completion, cols, quality, cf, ans, interval) ==
    LET agg == CompletionAggOf(completion, cols)
    IN  IF completion = <<>> \/ RA_COLUMN \notin cols \/ DOMAIN agg = {}
        THEN [status |-> "empty"]
        ELSE IF \E k \in DOMAIN agg : agg[k].total_interviews = 0
        THEN [status |-> "raised"]
        ELSE [status |-> "ok",
              table  |->
                [cols |-> FetchColumns(cols, quality, cf, ans),
                 rows |-> [k \in DOMAIN agg |->
                    Merge(AsRow(Merge(Merge(
                        agg[k] @@ [pct_complete |-> PctComplete(agg[k], cols)],
                        QualityColumns(agg[k], quality)),
                        [pct_within_14_16_days |->
                            ScheduleColumn(agg[k].ra_name, interval)])),
                        StatsColumns(agg[k], cf, ans))]]]

(***************************************************************************)
(* Manual-score store and score combiner.  A Python dict is a function;    *)
(* d.get(k, default) is DictGet.                                           *)
(***************************************************************************)
EmptyDict == [k \in {} |-> 0]

DictGet(d, k, default) == IF k \in DOMAIN d THEN d[k] ELSE default

\* {'journal': j, 'feedback': f, 'team': t}
Triple(j, f, t) == [journal |-> j, feedback |-> f, team |-> t]

\* json.dump followed by json.load of the store: the keys are strings and
\* the values integers, which JSON keeps as they are
json_roundtrip(scores) ==
    [p \in DOMAIN scores |->
        [r \in DOMAIN scores[p] |->
            [f \in DOMAIN scores[p][r] |-> scores[p][r][f]]]]

save_manual_scores(scores) == json_roundtrip(scores)

load_manual_scores(file) == file

\* f"{year}_{month:02d}", as a sequence of characters
Digit(d) == <<"0", "1", "2", "3", "4", "5", "6", "7", "8", "9">>[d + 1]

MonthKey(y, m) ==
    <<Digit(y \div 1000), Digit((y \div 100) % 10), Digit((y \div 10) % 10), Digit(y % 10),
      "_", Digit(m \div 10), Digit(m % 10)>>

\* manual_scores.get(month_key, {}).get(ra_name, {}).get(field, 0)
ManualField(manual, key, ra, field) ==
    DictGet(DictGet(DictGet(manual, key, EmptyDict), ra, EmptyDict), field, 0)

TotalScoreNoCompletion(row) ==
    row["schedule_score"].val + row["quality_score"].val
    + row["journal_score"].val + row["feedback_score"].val + row["team_score"].val

\* df['total_score'] = the sum of the six score columns
TotalScore(row) ==
    row["schedule_score"].val + row["quality_score"].val + row["completion_score"].val
    + row["journal_score"].val + row["feedback_score"].val + row["team_score"].val

RankDense(totals, r) ==
    1 + Cardinality({totals[j] : j \in {i \in DOMAIN totals : totals[i] > totals[r]}})

\* Series.rank(method='min', ascending=False).astype(int)
RankMin(totals, r) ==
    1 + Cardinality({j \in DOMAIN totals : totals[j] > totals[r]})

WithManual(row, manual, key) ==
    Merge(row,
          [journal_score  |-> Num(ManualField(manual, key, row["ra_name"], "journal")),
           feedback_score |-> Num(ManualField(manual, key, row["ra_name"], "feedback")),
           team_score     |-> Num(ManualField(manual, key, row["ra_name"], "team"))])

\* combine_scores before its final sort_values('rank')
CombinedRows(auto, manual, key) ==
    LET rows   == [r \in DOMAIN auto.rows |-> WithManual(auto.rows[r], manual, key)]
        totals == [r \in DOMAIN rows |-> TotalScore(rows[r])]
    IN  [r \in DOMAIN rows |->
            Merge(rows[r], [total_score |-> Num(totals[r]),
                            rank        |-> Num(RankMin(totals, r))])]

\* sort_values('rank') uses an unstable sort: every order of the rows that
\* is ascending in rank is a possible result
RECURSIVE RankOrders(_, _)
RankOrders(rows, left) ==
    IF left = {} THEN {<<>>}
    ELSE LET low == {i \in left : \A j \in left : rows[i]["rank"].val <= rows[j]["rank"].val}
         IN  UNION {{<<rows[i]>> \o o : o \in RankOrders(rows, left \ {i})} : i \in low}

\* the possible results of combine_scores(auto_df, manual_scores, month_key)
combine_scores(auto, manual, key) ==
    LET rows == CombinedRows(auto, manual, key)
    IN  {[cols |-> auto.cols \o <<"journal_score", "feedback_score", "team_score",
                                  "total_score", "rank">>,
          rows |-> o] : o \in RankOrders(rows, DOMAIN rows)}

(***************************************************************************)
(* The page: main and render_admin_section.  Every user event makes        *)
(* Streamlit run main from the top; st.rerun() ends the run and queues     *)
(* another one.  A selectbox of the admin section returns the option the   *)
(* admin picked in this run, and otherwise options[index], the stored      *)
(* value: its index changes with the stored value, and Streamlit builds a  *)
(* widget whose parameters changed anew from its defaults.                 *)
(***************************************************************************)
ADMIN_PASSWORD == "hfd2025"

YearOptions == <<2024, 2025>>

ScoreOptions == 0..5

ScoreFields == {"journal", "feedback", "team"}

\* the names of the table rows: str(row['ra_name'])
NamesOf(t) == {t.rows[r]["ra_name"] : r \in DOMAIN t.rows}

WidgetValueDefaultOne(ra_scores, ra, field, ev) ==
    IF ev.kind = "edit" /\ ev.ra = ra /\ ev.field = field THEN ev.value
    ELSE DictGet(ra_scores, field, 1)

\* st.selectbox(..., index=ra_scores.get(field, 0), key=f"{field[0]}_{ra_name}")
WidgetValue(ra_scores, ra, field, ev) ==
    IF ev.kind = "edit" /\ ev.ra = ra /\ ev.field = field THEN ev.value
    ELSE DictGet(ra_scores, field, 0)

NewScoresDrift(ra_scores, ra, ev) ==
    [journal  |-> WidgetValue(ra_scores, ra, "journal", ev),
     feedback |-> WidgetValue(ra_scores, ra, "feedback", ev),
     team     |-> (DictGet(ra_scores, "team", 0) + 1) % 6]

NewScoresCopyPaste(ra_scores, ra, ev) ==
    [journal  |-> WidgetValue(ra_scores, ra, "journal", ev),
     feedback |-> WidgetValue(ra_scores, ra, "feedback", ev),
     team     |-> WidgetValue(ra_scores, ra, "feedback", ev)]

\* new_scores = {'journal': journal_val, 'feedback': feedback_val, 'team': team_val}
NewScores(ra_scores, ra, ev) ==
    [journal  |-> WidgetValue(ra_scores, ra, "journal", ev),
     feedback |-> WidgetValue(ra_scores, ra, "feedback", ev),
     team     |-> WidgetValue(ra_scores, ra, "team", ev)]

\* the RAs of the table whose entered triple differs from the stored entry
ChangedRAs(manual, key, names, ev) ==
    LET month_scores == DictGet(manual, key, EmptyDict)
    IN  {ra \in names :
            NewScores(DictGet(month_scores, ra, EmptyDict), ra, ev)
                # DictGet(month_scores, ra, EmptyDict)}

UpdatedScoresFresh(manual, key, names, ev) ==
    LET month_scores == DictGet(manual, key, EmptyDict)
    IN  [k \in {key} |->
            [ra \in names |-> NewScores(DictGet(month_scores, ra, EmptyDict), ra, ev)]]

\* manual_scores after the loop over the rows: the entries of the changed
\* RAs are replaced in manual_scores[month_key], everything else is kept
UpdatedScores(manual, key, names, ev) ==
    LET month_scores == DictGet(manual, key, EmptyDict)
        changed      == ChangedRAs(manual, key, names, ev)
    IN  IF changed = {} THEN manual
        ELSE [k \in (DOMAIN manual) \cup {key} |->
                IF k # key THEN manual[k]
                ELSE [ra \in (DOMAIN month_scores) \cup changed |->
                        IF ra \in changed
                        THEN NewScores(DictGet(month_scores, ra, EmptyDict), ra, ev)
                        ELSE month_scores[ra]]]

ResetScoresAll(manual, key) == EmptyDict

\* del manual_scores[month_key]
ResetScores(manual, key) == [k \in (DOMAIN manual) \ {key} |-> manual[k]]

\* load_cached_data / save_cached_data: the CSV keeps the columns, the
\* integer cells and the RA names of a scored table
save_cached_data(t) == t

load_cached_data(file) == file

(***************************************************************************)
(* SpecScore: calculate_scores as a pure function.  The input is a metrics *)
(* table of two RAs: any subset of the three percentage columns is         *)
(* present (a table loaded from an older cache file may lack some), and    *)
(* every cell is an integer percentage 0..MaxPct or missing.               *)
(***************************************************************************)
MaxPct == 100

PctCells == {NaN} \cup {Num(p) : p \in 0..MaxPct}

PctColumns == {"pct_complete", "pct_no_quality_flags", "pct_within_14_16_days"}

ColumnsOf(S) == SelectSeq(MetricColumns, LAMBDA c : c = "ra_name" \/ c \in S)

MetricsRow(name, S, cell) ==
    [c \in {"ra_name"} \cup S |-> IF c = "ra_name" THEN name ELSE cell]

\* the feeds are given as located rows, not as tables with column names
TablesIdle ==
    /\ completion_table = [cols |-> <<>>, rows |-> <<>>]
    /\ quality_table = [cols |-> <<>>, rows |-> {}]

\* the state of the feed aggregator while another specification runs
FetchIdle ==
    /\ TablesIdle
    /\ completion_feed = <<>>
    /\ quality_feed = {}
    /\ interval_feed = {}
    /\ completion_cols = {}
    /\ feed_errors = {}
    /\ cf_feed = {}
    /\ ans_feed = {}
    /\ fetched = [status |-> "none"]

\* no table: pd.DataFrame()
NoTable == [cols |-> <<>>, rows |-> <<>>]

\* history record: kind is the last step, cause the last user event (a
\* rerun keeps it) with its period key and RA; entered is the triple of the
\* widgets of that RA after an entry, prior the number of non-zero triples
\* the period held before a reset
Event(kind, key, ra, entered, prior) ==
    [kind |-> kind, cause |-> kind, key |-> key, ra |-> ra,
     entered |-> entered, prior |-> prior]

NoEvent == Event("none", <<>>, "", EmptyDict, 0)

\* the session while another specification runs
SessionIdle ==
    /\ password = ""
    /\ is_admin = FALSE
    /\ rerun = FALSE
    /\ edits = 0
    /\ last_event = NoEvent
    /\ cache_period = <<>>

\* get_date_range and normalize_columns not under study
ToolIdle ==
    /\ today = <<2025, 1, 1>>
    /\ date_range = <<>>
    /\ labels = <<>>
    /\ passes = <<>>

\* no save in progress
SaveIdle ==
    /\ disk = <<>>
    /\ writer = [file |-> "none", pc |-> "idle"]
    /\ loaded = [status |-> "none"]

\* the state of the page while another specification runs
PageIdle ==
    /\ SaveIdle
    /\ ToolIdle
    /\ cache_file = NoTable
    /\ manual_file = EmptyDict
    /\ year = 2025
    /\ month = 1
    /\ shown = NoTable
    /\ SessionIdle

ScoreInit ==
    /\ FetchIdle
    /\ PageIdle
    /\ \E S \in SUBSET PctColumns : \E p \in PctCells, q \in PctCells :
          df = [cols |-> ColumnsOf(S),
                rows |-> <<MetricsRow("amina", S, p), MetricsRow("brian", S, q)>>]
    /\ scored = FALSE

CalculateScores ==
    /\ ~scored
    /\ df' = calculate_scores(df)
    /\ scored' = TRUE
    /\ UNCHANGED <<toolVars, fetchVars, pageVars, sessionVars, saveVars>>

ScoreNext == CalculateScores

SpecScore == ScoreInit /\ [][ScoreNext]_vars

(***************************************************************************)
(* SpecFetch: one refresh, from the feeds to the scored table.  The feeds  *)
(* are the inputs.  The aggregation does not depend on the order of the    *)
(* feed rows, so each multiset of completion rows is drawn once (sorted)   *)
(* and the quality feed is drawn as a set of distinct rows.                *)
(***************************************************************************)
MaxCompletionRows == 2

MaxQualityRows == 2

MaxGapInterviews == 1

HouseholdCodes == {<<"H", "1">>, <<"H", "2">>}

InterviewDates == {<<"0", "1">>, <<"0", "2">>}

CompletionRAs == <<"Julie", "amina", "brian">>

StatusValues == <<"Complete", "Partial">>

CompletionCodes == <<Null, <<"H", "1">>>>

QualityRAs == {"amina", "brian"}

IndexOf(seq, x) == CHOOSE i \in DOMAIN seq : seq[i] = x

CompletionRows ==
    {[ra |-> CompletionRAs[i], hh |-> CompletionCodes[j], status |-> StatusValues[k]] :
        i \in DOMAIN CompletionRAs, j \in DOMAIN CompletionCodes, k \in DOMAIN StatusValues}

RowRank(row) ==
    (IndexOf(CompletionRAs, row.ra) * 10 + IndexOf(CompletionCodes, row.hh)) * 10
        + IndexOf(StatusValues, row.status)

CompletionFeeds ==
    {s \in UNION {[1..n -> CompletionRows] : n \in 0..MaxCompletionRows} :
        \A i \in 1..(Len(s) - 1) : RowRank(s[i]) <= RowRank(s[i + 1])}

QualityRows ==
    [ra : QualityRAs, hh : HouseholdCodes, date : InterviewDates, imbalance : BOOLEAN]

QualityFeeds ==
    {{s[i] : i \in DOMAIN s} :
        s \in UNION {[1..n -> QualityRows] : n \in 0..MaxQualityRows}}

\* the interval query groups by RA: at most one row per RA, counting only
\* interviews with a gap, of which on_schedule have a gap of 14..16 days
IntervalRows ==
    {[ra_name |-> "amina", on_schedule |-> on, total_interviews |-> tot] :
        on \in 0..MaxGapInterviews, tot \in 1..MaxGapInterviews}

IntervalFeeds ==
    {[failed |-> TRUE, rows |-> {}], [failed |-> FALSE, rows |-> {}]}
    \cup {[failed |-> FALSE, rows |-> {s}] :
            s \in {x \in IntervalRows : x.on_schedule <= x.total_interviews}}

\* the state of the score mapper while another specification runs
ScoreIdle ==
    /\ df = [cols |-> <<>>, rows |-> <<>>]
    /\ scored = FALSE

FetchInit ==
    /\ ScoreIdle
    /\ PageIdle
    /\ TablesIdle
    /\ completion_feed \in CompletionFeeds
    /\ quality_feed \in QualityFeeds
    /\ interval_feed \in IntervalFeeds
    /\ completion_cols = AllCompletionCols
    /\ feed_errors = {}
    /\ cf_feed = NoStats
    /\ ans_feed = NoStats
    /\ fetched = [status |-> "none"]

\* the outcome of fetch_all_metrics on the feeds of the state
FetchOutcome ==
    fetch_all_metrics(
        run_sql_file(feed_errors, "completion", completion_feed, <<>>),
        completion_cols,
        run_sql_file(feed_errors, "quality", quality_feed, {}),
        cf_feed, ans_feed, interval_feed)

RefreshedCacheCleared(res, cache) ==
    IF res.status = "ok" THEN save_cached_data(calculate_scores(res.table))
    ELSE [cols |-> <<>>, rows |-> <<>>]

\* the cache file after the refresh: written only when the table is not empty
RefreshedCache(res, cache) ==
    IF res.status = "ok" THEN save_cached_data(calculate_scores(res.table))
    ELSE cache

\* the refresh of main and of generate_cache.py: df = fetch_all_metrics(...);
\* if not df.empty: df = calculate_scores(df); save_cached_data(df)
FetchAndScore ==
    /\ fetched.status = "none"
    /\ LET res == IF "disabled" \in feed_errors THEN [status |-> "empty"]
                  ELSE FetchOutcome
       IN  /\ fetched' = IF res.status = "ok"
                         THEN [status |-> "ok", table |-> calculate_scores(res.table)]
                         ELSE res
           /\ cache_file' = RefreshedCache(res, cache_file)
    /\ UNCHANGED <<toolVars, feedVars, scoreVars, manual_file, year, month, shown, sessionVars,
                   saveVars>>

FetchNext == FetchAndScore

SpecFetch == FetchInit /\ [][FetchNext]_vars

(***************************************************************************)
(* SpecRefresh: one refresh with everything that can go wrong around the   *)
(* aggregation: a query of run_sql_file fails or the database is disabled, *)
(* a column of the completion feed is missing, the statistics queries      *)
(* fail, return nothing or return rows, and a cache file may exist from an *)
(* earlier refresh.  The completion rows have a household code.            *)
(***************************************************************************)
FeedErrors == (SUBSET {"completion", "quality"}) \cup {{"disabled"}}

CompletionColumnSets ==
    {AllCompletionCols, AllCompletionCols \ {RA_COLUMN},
     AllCompletionCols \ {STATUS_COLUMN}, AllCompletionCols \ {HOUSEHOLD_COLUMN}}

RefreshCompletionFeeds ==
    {s \in CompletionFeeds : \A i \in DOMAIN s : s[i].hh # Null}

RefreshQualityFeeds ==
    {q \in QualityFeeds :
        /\ Cardinality(q) <= 1
        /\ \A r \in q : r.hh = <<"H", "1">> /\ r.date = <<"0", "1">>}

\* the statistics queries group by username: at most one row per RA
StatsFeeds ==
    {NoStats, [failed |-> FALSE, rows |-> {}],
     [failed |-> FALSE, rows |-> {[ra_name |-> "amina", total |-> 3]}]}

\* the cache file of an earlier refresh
PriorCache ==
    calculate_scores(
        [cols |-> <<"ra_name", "total_interviews", "pct_complete">>,
         rows |-> <<[ra_name |-> "zainab", total_interviews |-> Num(4),
                     pct_complete |-> Num(75)]>>])

RefreshInit ==
    /\ ToolIdle
    /\ TablesIdle
    /\ ScoreIdle
    /\ SessionIdle
    /\ SaveIdle
    /\ completion_feed \in RefreshCompletionFeeds
    /\ quality_feed \in RefreshQualityFeeds
    /\ interval_feed \in IntervalFeeds
    /\ completion_cols \in CompletionColumnSets
    /\ feed_errors \in FeedErrors
    /\ cf_feed \in StatsFeeds
    /\ ans_feed \in StatsFeeds
    /\ fetched = [status |-> "none"]
    /\ cache_file \in {NoTable, PriorCache}
    /\ manual_file = EmptyDict
    /\ year = 2025
    /\ month = 1
    /\ shown = NoTable

RefreshNext == FetchAndScore

SpecRefresh == RefreshInit /\ [][RefreshNext]_vars

(***************************************************************************)
(* SpecLookup: fetch_all_metrics on feeds given as tables with their own   *)
(* column names (after normalize_columns), so that the lookup of the RA,   *)
(* household, status, interview date and issue description columns is      *)
(* part of the model.  A row is a function from column names to values.    *)
(***************************************************************************)
FeedColumnNames ==
    {"interviewer", "ra_name", "duration", "household_code", "status",
     "interview_date", "issue_description"}

\* the keywords fetch_all_metrics looks for that occur in each column name
\* ("duration" contains "ra", "interviewer" does not)
FeedKeywordsOf(c) ==
    CASE c = "interviewer"       -> {"interviewer", "interview"}
      [] c = "ra_name"           -> {"ra"}
      [] c = "duration"          -> {"ra"}
      [] c = "household_code"    -> {"household", "code"}
      [] c = "interview_date"    -> {"interview", "date"}
      [] c = "issue_description" -> {"issue", "desc"}
      [] OTHER                   -> {}

\* the column names in which every keyword of kws occurs
Having(kws) == {c \in FeedColumnNames : kws \subseteq FeedKeywordsOf(c)}

\* ra_col of the completion feed: the first column with 'interviewer' in
\* its name, else the first with 'ra'; "" for None
CompletionRaColumn(cols) ==
    LET byInterviewer == FirstColumn(cols, Having({"interviewer"}))
    IN  IF byInterviewer # "" THEN byInterviewer
        ELSE FirstColumn(cols, Having({"ra"}))

\* ra_col_q of the quality feed: the first column with 'ra' in its name
QualityRaColumn(cols) == FirstColumn(cols, Having({"ra"}))

\* hh_col and hh_col_q
HouseholdColumn(cols) == FirstColumn(cols, Having({"household", "code"}))

\* status_col: the column named exactly 'status'
StatusColumn(cols) == FirstColumn(cols, {"status"})

\* int_date_col
InterviewDateColumn(cols) == FirstColumn(cols, Having({"interview", "date"}))

\* issue_col
IssueColumn(cols) == FirstColumn(cols, Having({"issue", "desc"}))

\* the issue descriptions of the model
IssueTexts == {"CF02 Imbalance over 5%", "Missing answer"}

\* str.contains('imbalance', case=False, na=False)
IsImbalance(text) == text \in {"CF02 Imbalance over 5%"}

\* the completion rows with the located columns, and the located columns
LocatedCompletion(t) ==
    LET ra_col     == CompletionRaColumn(t.cols)
        hh_col     == HouseholdColumn(t.cols)
        status_col == StatusColumn(t.cols)
    IN  [rows |-> IF ra_col = "" THEN <<>>
                  ELSE [i \in DOMAIN t.rows |->
                          [ra     |-> t.rows[i][ra_col],
                           hh     |-> IF hh_col = "" THEN Null ELSE t.rows[i][hh_col],
                           status |-> IF status_col = "" THEN ""
                                      ELSE t.rows[i][status_col]]],
         cols |-> (IF ra_col = "" THEN {} ELSE {RA_COLUMN})
                  \cup (IF hh_col = "" THEN {} ELSE {HOUSEHOLD_COLUMN})
                  \cup (IF status_col = "" THEN {} ELSE {STATUS_COLUMN})]

QualityUsableWithoutHousehold(t) ==
    t.rows # {} /\ QualityRaColumn(t.cols) # ""

\* if not quality_df.empty ... if ra_col_q and hh_col_q
QualityUsable(t) ==
    t.rows # {} /\ QualityRaColumn(t.cols) # "" /\ HouseholdColumn(t.cols) # ""

\* the quality rows with the located columns; no rows when the feed is not
\* usable (both branches give the defaults of an empty feed).  Without an
\* interview date column the household code alone is counted, which is
\* the key with an empty date; without an issue description column no
\* row is an imbalance row.
LocatedQuality(t) ==
    LET ra_col_q     == QualityRaColumn(t.cols)
        hh_col_q     == HouseholdColumn(t.cols)
        issue_col    == IssueColumn(t.cols)
        int_date_col == InterviewDateColumn(t.cols)
    IN  IF ~QualityUsable(t) THEN {}
        ELSE {[ra        |-> r[ra_col_q],
               hh        |-> IF hh_col_q = "" THEN Null ELSE r[hh_col_q],
               date      |-> IF int_date_col = "" THEN <<>> ELSE r[int_date_col],
               imbalance |-> issue_col # "" /\ IsImbalance(r[issue_col])] :
                  r \in t.rows}

\* fetch_all_metrics on the two tables: "empty" when the completion feed
\* has no rows or no RA column
FetchFromTables(completion, quality, cf, ans, interval) ==
    LET located == LocatedCompletion(completion)
    IN  IF completion.rows = <<>> THEN [status |-> "empty"]
        ELSE fetch_all_metrics(located.rows, located.cols, LocatedQuality(quality),
                               cf, ans, interval)

\* the range of a sequence
Range(seq) == {seq[i] : i \in DOMAIN seq}

\* a row with a value for every column, restricted to the columns of a feed
Project(row, cols) == [c \in Range(cols) |-> row[c]]

\* the column lists of the completion feeds: the RA column is named
\* "interviewer", or "ra_name", or both columns exist, or neither
CompletionColumnLists ==
    {<<"interviewer", "household_code", "status">>,
     <<"ra_name", "household_code", "status">>,
     <<"ra_name", "interviewer", "household_code", "status">>,
     <<"household_code", "status">>}

CompletionFullRows ==
    {[interviewer |-> who, ra_name |-> "brian", household_code |-> <<"H">>,
      status |-> "Complete"] : who \in {"amina", "Julie"}}

CompletionTables ==
    {[cols |-> cols, rows |-> [i \in DOMAIN rows |-> Project(rows[i], cols)]] :
        cols \in CompletionColumnLists,
        rows \in UNION {[1..n -> CompletionFullRows] : n \in 0..MaxCompletionRows}}

\* the column lists of the quality feeds: all four columns; the RA column
\* named "interviewer"; a "duration" column before it; no interview date;
\* no issue description; no household code; no RA column
QualityColumnLists ==
    {<<"ra_name", "household_code", "interview_date", "issue_description">>,
     <<"interviewer", "household_code", "interview_date", "issue_description">>,
     <<"duration", "interviewer", "household_code", "interview_date",
       "issue_description">>,
     <<"ra_name", "household_code", "issue_description">>,
     <<"ra_name", "household_code", "interview_date">>,
     <<"ra_name", "interview_date", "issue_description">>,
     <<"household_code", "interview_date", "issue_description">>}

\* household codes and interview dates are arbitrary strings (astype(str))
QualityFullRows ==
    {[interviewer |-> who, ra_name |-> who, duration |-> "45",
      household_code |-> hh, interview_date |-> date, issue_description |-> text] :
        who \in {"amina", "brian"}, hh \in {<<"H">>, <<"H", "_", "1">>},
        date \in {<<"2">>, <<"1", "_", "2">>}, text \in IssueTexts}

QualityTables ==
    {[cols |-> cols, rows |-> {Project(rows[i], cols) : i \in DOMAIN rows}] :
        cols \in QualityColumnLists,
        rows \in UNION {[1..n -> QualityFullRows] : n \in 0..MaxQualityRows}}

LookupInit ==
    /\ ToolIdle
    /\ ScoreIdle
    /\ SessionIdle
    /\ SaveIdle
    /\ completion_table \in CompletionTables
    /\ quality_table \in QualityTables
    /\ completion_feed = <<>>
    /\ quality_feed = {}
    /\ completion_cols = {}
    /\ interval_feed = [failed |-> FALSE, rows |-> {}]
    /\ feed_errors = {}
    /\ cf_feed = NoStats
    /\ ans_feed = NoStats
    /\ fetched = [status |-> "none"]
    /\ cache_file = [cols |-> <<>>, rows |-> <<>>]
    /\ manual_file = EmptyDict
    /\ year = 2025
    /\ month = 1
    /\ shown = [cols |-> <<>>, rows |-> <<>>]

\* the refresh on the two tables: df = fetch_all_metrics(...);
\* if not df.empty: df = calculate_scores(df); save_cached_data(df)
FetchTables ==
    /\ fetched.status = "none"
    /\ LET res == FetchFromTables(completion_table, quality_table, cf_feed, ans_feed,
                                  interval_feed)
       IN  /\ fetched' = IF res.status = "ok"
                         THEN [status |-> "ok", table |-> calculate_scores(res.table)]
                         ELSE res
           /\ cache_file' = RefreshedCache(res, cache_file)
    /\ UNCHANGED <<toolVars, feedVars, scoreVars, manual_file, year, month, shown,
                   sessionVars, saveVars>>

LookupNext == FetchTables

SpecLookup == LookupInit /\ [][LookupNext]_vars

(***************************************************************************)
(* Spec: the page in one browser session.  The session starts with no      *)
(* cache and an empty store, the month selector on today's month and a     *)
(* first run of main queued.                                               *)
(***************************************************************************)
MaxEdits == 2

\* the months of the selector used here (it offers 1..12); the year
\* selector stays on its default, YearOptions[2]
MonthOptions == {9, 11}

Periods == {MonthKey(YearOptions[2], m) : m \in MonthOptions}

\* the options the admin picks among (the selectboxes offer ScoreOptions)
EnteredScores == {0, 5}

Passwords == {"", ADMIN_PASSWORD}

\* the feeds a refresh may find in the database, as
\* <<completion rows, quality rows, interval rows>>
AppFeeds ==
    { <<<<>>, {}, [failed |-> FALSE, rows |-> {}]>>,
      <<<<[ra |-> "amina", hh |-> Null, status |-> "Complete"]>>, {},
        [failed |-> FALSE, rows |-> {}]>>,
      <<<<[ra |-> "amina", hh |-> <<"H", "1">>, status |-> "Complete"]>>, {},
        [failed |-> TRUE, rows |-> {}]>>,
      <<<<[ra |-> "amina", hh |-> <<"H", "1">>, status |-> "Complete"],
          [ra |-> "brian", hh |-> <<"H", "1">>, status |-> "Partial"]>>,
        {[ra |-> "brian", hh |-> <<"H", "1">>, date |-> <<"0", "1">>, imbalance |-> FALSE]},
        [failed |-> FALSE,
         rows |-> {[ra_name |-> "amina", on_schedule |-> 1, total_interviews |-> 1]}]>> }

\* the triple read for (period key, ra): get(), all zero when absent
TripleRead(manual, key, ra) ==
    Triple(ManualField(manual, key, ra, "journal"),
           ManualField(manual, key, ra, "feedback"),
           ManualField(manual, key, ra, "team"))

ZeroTriple == Triple(0, 0, 0)

Init ==
    /\ ToolIdle
    /\ ScoreIdle
    /\ FetchIdle
    /\ SaveIdle
    /\ cache_file = NoTable
    /\ manual_file = EmptyDict
    /\ year = YearOptions[2]
    /\ month \in MonthOptions
    /\ shown = NoTable
    /\ password = ""
    /\ is_admin = FALSE
    /\ rerun = TRUE
    /\ edits = 0
    /\ last_event = NoEvent
    /\ cache_period = <<>>

\* one run of main with the selectors on y and m, the password field holding
\* pw, the click or entry ev of this run and, for a refresh click, the
\* outcome fetch of fetch_all_metrics
MainRun(y, m, pw, ev, fetch) ==
    LET key    == MonthKey(y, m)
        admin  == is_admin \/ pw = ADMIN_PASSWORD
        cached == load_cached_data(cache_file)
        auto   == IF "schedule_score" \in ColumnSet(cached) THEN cached
                  ELSE calculate_scores(cached)
        manual == load_manual_scores(manual_file)
    IN  /\ year' = y
        /\ month' = m
        /\ password' = pw
        /\ cache_period' = IF ev.kind = "refresh" /\ fetch.status = "ok" THEN key
                           ELSE cache_period
        /\ IF ev.kind = "refresh" /\ fetch.status = "ok"
           THEN \* the table is scored and cached, st.rerun()
                /\ cache_file' = save_cached_data(calculate_scores(fetch.table))
                /\ rerun' = TRUE
                /\ shown' = NoTable
                /\ UNCHANGED <<manual_file, is_admin>>
           ELSE IF ev.kind = "refresh" /\ fetch.status = "raised"
           THEN \* the exception ends the run
                /\ rerun' = FALSE
                /\ shown' = NoTable
                /\ UNCHANGED <<cache_file, manual_file, is_admin>>
           ELSE IF admin /\ ev.kind = "logout"
           THEN /\ is_admin' = FALSE
                /\ rerun' = TRUE
                /\ shown' = NoTable
                /\ UNCHANGED <<cache_file, manual_file>>
           ELSE /\ is_admin' = admin
                /\ UNCHANGED cache_file
                /\ IF cached.rows = <<>>
                   THEN /\ shown' = NoTable
                        /\ rerun' = FALSE
                        /\ UNCHANGED manual_file
                   ELSE /\ shown' \in combine_scores(auto, manual, key)
                        /\ IF ~admin
                           THEN rerun' = FALSE /\ UNCHANGED manual_file
                           ELSE IF ev.kind = "reset" /\ key \in DOMAIN manual
                           THEN /\ manual_file' = save_manual_scores(ResetScores(manual, key))
                                /\ rerun' = TRUE
                           ELSE IF ChangedRAs(manual, key, NamesOf(auto), ev) # {}
                           THEN /\ manual_file' = save_manual_scores(
                                       UpdatedScores(manual, key, NamesOf(auto), ev))
                                /\ rerun' = TRUE
                           ELSE rerun' = FALSE /\ UNCHANGED manual_file

NoFetch == [status |-> "none"]

\* a click or entry that is no score entry
Click(kind) == [kind |-> kind, ra |-> "", field |-> "", value |-> 0]

UserEvent(kind) == Event(kind, MonthKey(year, month), "", EmptyDict, 0)

\* the outcomes of fetch_all_metrics on the feeds a refresh may find
AppFetches ==
    {fetch_all_metrics(f[1], AllCompletionCols, f[2], NoStats, NoStats, f[3]) :
        f \in AppFeeds}

\* the admin section was rendered by the last run
AdminRendered == ~rerun /\ is_admin /\ shown # NoTable

SelectMonth(m) ==
    /\ ~rerun /\ m # month
    /\ last_event' = UserEvent("select")
    /\ MainRun(year, m, password, Click("select"), NoFetch)
    /\ UNCHANGED <<toolVars, edits, scoreVars, fetchVars, saveVars>>

EnterPassword(pw) ==
    /\ ~rerun /\ pw # password
    /\ last_event' = UserEvent("password")
    /\ MainRun(year, month, pw, Click("password"), NoFetch)
    /\ UNCHANGED <<toolVars, edits, scoreVars, fetchVars, saveVars>>

ClickRefresh(fetch) ==
    /\ ~rerun
    /\ last_event' = UserEvent("refresh")
    /\ MainRun(year, month, password, Click("refresh"), fetch)
    /\ UNCHANGED <<toolVars, edits, scoreVars, fetchVars, saveVars>>

ClickLogout ==
    /\ ~rerun /\ is_admin
    /\ last_event' = UserEvent("logout")
    /\ MainRun(year, month, password, Click("logout"), NoFetch)
    /\ UNCHANGED <<toolVars, edits, scoreVars, fetchVars, saveVars>>

ClickReset ==
    /\ AdminRendered
    /\ last_event' =
         Event("reset", MonthKey(year, month), "", EmptyDict,
               Cardinality({ra \in DOMAIN DictGet(manual_file, MonthKey(year, month), EmptyDict) :
                              TripleRead(manual_file, MonthKey(year, month), ra) # ZeroTriple}))
    /\ MainRun(year, month, password, Click("reset"), NoFetch)
    /\ UNCHANGED <<toolVars, edits, scoreVars, fetchVars, saveVars>>

\* the admin picks another option in one selectbox of one RA
EditScore(ra, field, v) ==
    /\ AdminRendered
    /\ edits < MaxEdits
    /\ ra \in NamesOf(shown)
    /\ v # ManualField(manual_file, MonthKey(year, month), ra, field)
    /\ edits' = edits + 1
    /\ last_event' =
         Event("edit", MonthKey(year, month), ra,
               [TripleRead(manual_file, MonthKey(year, month), ra) EXCEPT ![field] = v], 0)
    /\ MainRun(year, month, password,
               [kind |-> "edit", ra |-> ra, field |-> field, value |-> v], NoFetch)
    /\ UNCHANGED <<toolVars, scoreVars, fetchVars, saveVars>>

\* the queued run: the first load of the page, or the run after st.rerun()
Rerun ==
    /\ rerun
    /\ last_event' = [last_event EXCEPT !.kind = "rerun"]
    /\ MainRun(year, month, password, Click("rerun"), NoFetch)
    /\ UNCHANGED <<toolVars, edits, scoreVars, fetchVars, saveVars>>

Next ==
    \/ \E m \in MonthOptions : SelectMonth(m)
    \/ \E pw \in Passwords : EnterPassword(pw)
    \/ \E fetch \in AppFetches : ClickRefresh(fetch)
    \/ ClickLogout
    \/ ClickReset
    \/ \E ra \in NamesOf(shown), field \in ScoreFields, v \in EnteredScores :
          EditScore(ra, field, v)
    \/ Rerun

Spec == Init /\ [][Next]_vars

(***************************************************************************)
(* SpecSave: one save of a file followed by a load.  save_manual_scores    *)
(* and save_cached_data open the target itself for writing, which empties  *)
(* it, and then write the text piece by piece; the write can fail at any   *)
(* point (full disk, killed process).  The text of a file is a sequence    *)
(* of tokens: the JSON of the store is an opening brace, one token per     *)
(* (period, RA) entry and a closing brace; the CSV of the table is a       *)
(* header line and one line per row.                                       *)
(***************************************************************************)
RECURSIVE SetToSeq(_)
SetToSeq(S) ==
    IF S = {} THEN <<>>
    ELSE LET x == CHOOSE x \in S : TRUE IN <<x>> \o SetToSeq(S \ {x})

\* json.dump(scores, f, indent=2)
json_dump(scores) ==
    <<[tok |-> "open"]>>
    \o SetToSeq(UNION {{[tok |-> "entry", period |-> p, ra |-> r, triple |-> scores[p][r]] :
                          r \in DOMAIN scores[p]} : p \in DOMAIN scores})
    \o <<[tok |-> "close"]>>

\* json.load(f): a text that is not a complete document raises
json_load(text) ==
    IF Len(text) >= 2 /\ text[1].tok = "open" /\ text[Len(text)].tok = "close"
    THEN LET E == {text[i] : i \in 2..(Len(text) - 1)}
         IN  [status |-> "ok",
              value  |-> [p \in {e.period : e \in E} |->
                            [r \in {e.ra : e \in {x \in E : x.period = p}} |->
                                (CHOOSE e \in E : e.period = p /\ e.ra = r).triple]]]
    ELSE [status |-> "raised"]

\* df.to_csv(CACHED_DATA_FILE, index=False)
to_csv(t) ==
    <<[tok |-> "header", cols |-> t.cols]>>
    \o [i \in DOMAIN t.rows |-> [tok |-> "row", row |-> t.rows[i]]]

\* pd.read_csv(CACHED_DATA_FILE): an empty file raises, otherwise the
\* lines that are there make the table
read_csv(text) ==
    IF text = <<>> THEN [status |-> "raised"]
    ELSE [status |-> "ok",
          value  |-> [cols |-> text[1].cols,
                      rows |-> [i \in 1..(Len(text) - 1) |-> text[i + 1].row]]]

\* the stores and tables saved and found on disk
SaveStores ==
    {[p \in {MonthKey(2025, 11)} |-> [r \in {"amina"} |-> Triple(5, 0, 5)]],
     [p \in {MonthKey(2025, 11)} |-> [r \in {"amina", "brian"} |-> Triple(0, 5, 0)]],
     [p \in {MonthKey(2025, 9), MonthKey(2025, 11)} |->
        [r \in {"amina", "brian"} |-> IF r = "amina" THEN Triple(5, 5, 5) ELSE Triple(0, 0, 5)]]}

SaveTables ==
    {calculate_scores(
        [cols |-> <<"ra_name", "pct_complete">>,
         rows |-> [i \in 1..n |->
                     [ra_name |-> <<"amina", "brian", "zainab">>[i],
                      pct_complete |-> Num(<<100, 75, 50>>[i])]]]) : n \in 1..3}

\* the text of the object in memory that is being saved
TextOf(file, object) == IF file = "manual" THEN json_dump(object) ELSE to_csv(object)

SaveInit ==
    /\ ToolIdle
    /\ ScoreIdle
    /\ FetchIdle
    /\ SessionIdle
    /\ year = 2025
    /\ month = 11
    /\ shown = NoTable
    /\ loaded = [status |-> "none"]
    /\ \/ \E old \in SaveStores, new \in SaveStores :
             /\ manual_file = old
             /\ cache_file = NoTable
             /\ disk = json_dump(old)
             /\ writer = [file |-> "manual", pc |-> "idle", new |-> new]
       \/ \E old \in SaveTables, new \in SaveTables :
             /\ cache_file = old
             /\ manual_file = EmptyDict
             /\ disk = to_csv(old)
             /\ writer = [file |-> "cache", pc |-> "idle", new |-> new]

\* open(file, 'w') / to_csv(path): the file is emptied
OpenForWrite ==
    /\ writer.pc = "idle"
    /\ disk' = <<>>
    /\ writer' = [writer EXCEPT !.pc = "writing"]
    /\ UNCHANGED <<toolVars, loaded, scoreVars, fetchVars, pageVars, sessionVars>>

\* the next piece of the text reaches the file
WriteChunk ==
    /\ writer.pc = "writing"
    /\ Len(disk) < Len(TextOf(writer.file, writer.new))
    /\ disk' = Append(disk, TextOf(writer.file, writer.new)[Len(disk) + 1])
    /\ UNCHANGED <<toolVars, writer, loaded, scoreVars, fetchVars, pageVars, sessionVars>>

\* the with block ends: the file holds the whole text
CloseFile ==
    /\ writer.pc = "writing"
    /\ disk = TextOf(writer.file, writer.new)
    /\ writer' = [writer EXCEPT !.pc = "saved"]
    /\ IF writer.file = "manual"
       THEN manual_file' = json_load(disk).value /\ UNCHANGED cache_file
       ELSE cache_file' = read_csv(disk).value /\ UNCHANGED manual_file
    /\ UNCHANGED <<toolVars, disk, loaded, year, month, shown, scoreVars, fetchVars, sessionVars>>

\* a write raises or the process dies: nothing restores the file
FailWrite ==
    /\ writer.pc = "writing"
    /\ writer' = [writer EXCEPT !.pc = "failed"]
    /\ UNCHANGED <<toolVars, disk, loaded, scoreVars, fetchVars, pageVars, sessionVars>>

\* load_manual_scores / load_cached_data on the next run
LoadFile ==
    /\ writer.pc \in {"saved", "failed"}
    /\ loaded.status = "none"
    /\ loaded' = IF writer.file = "manual" THEN json_load(disk) ELSE read_csv(disk)
    /\ UNCHANGED <<toolVars, disk, writer, scoreVars, fetchVars, pageVars, sessionVars>>

SaveNext == OpenForWrite \/ WriteChunk \/ CloseFile \/ FailWrite \/ LoadFile

SpecSave == SaveInit /\ [][SaveNext]_vars

(***************************************************************************)
(* SpecDate: get_date_range as a pure function of the selected month and   *)
(* year and of the clock.  A date is <<year, month, day>>.                 *)
(***************************************************************************)
IsLeap(y) == (y % 4 = 0 /\ y % 100 # 0) \/ y % 400 = 0

DaysInMonth(y, m) ==
    IF m = 2 THEN (IF IsLeap(y) THEN 29 ELSE 28)
    ELSE IF m \in {4, 6, 9, 11} THEN 30 ELSE 31

\* d - pd.Timedelta(days=1)
MinusOneDay(d) ==
    IF d[3] > 1 THEN <<d[1], d[2], d[3] - 1>>
    ELSE IF d[2] > 1 THEN <<d[1], d[2] - 1, DaysInMonth(d[1], d[2] - 1)>>
    ELSE <<d[1] - 1, 12, 31>>

MonthEndNextYear(y, m) ==
    IF m = 12 THEN MinusOneDay(<<y + 2, 1, 1>>)
    ELSE MinusOneDay(<<y, m + 1, 1>>)

\* the else branch: the day before the first day of the next month
MonthEnd(y, m) ==
    IF m = 12 THEN MinusOneDay(<<y + 1, 1, 1>>)
    ELSE MinusOneDay(<<y, m + 1, 1>>)

\* d.strftime("%Y-%m-%d"), as a sequence of characters
strftime(d) ==
    <<Digit(d[1] \div 1000), Digit((d[1] \div 100) % 10), Digit((d[1] \div 10) % 10),
      Digit(d[1] % 10), "-", Digit(d[2] \div 10), Digit(d[2] % 10), "-",
      Digit(d[3] \div 10), Digit(d[3] % 10)>>

get_date_range(m, y, now) ==
    LET start == <<y, m, 1>>
        end   == IF m = now[2] /\ y = now[1] THEN now ELSE MonthEnd(y, m)
    IN  <<strftime(start), strftime(end)>>

\* the clock readings of the model
TodayChoices ==
    {<<y, m, d>> : y \in {2024, 2025}, m \in {1, 2, 12}, d \in {1, 15, 28}}

DateInit ==
    /\ ScoreIdle
    /\ FetchIdle
    /\ SessionIdle
    /\ SaveIdle
    /\ cache_file = NoTable
    /\ manual_file = EmptyDict
    /\ shown = NoTable
    /\ labels = <<>>
    /\ passes = <<>>
    /\ year \in {YearOptions[i] : i \in DOMAIN YearOptions}
    /\ month \in 1..12
    /\ today \in TodayChoices
    /\ date_range = <<>>

\* start_date, end_date = get_date_range(month, year)
GetDateRange ==
    /\ date_range = <<>>
    /\ date_range' = get_date_range(month, year, today)
    /\ UNCHANGED <<today, labels, passes, scoreVars, fetchVars, pageVars, sessionVars,
                   saveVars>>

DateNext == GetDateRange

SpecDate == DateInit /\ [][DateNext]_vars

(***************************************************************************)
(* SpecNormalize: normalize_columns on a list of column labels.  A label   *)
(* is a sequence of characters.                                            *)
(***************************************************************************)
MaxLabelLen == 4

\* the characters column labels are drawn from
LabelChars == {"A", "1", "%", "<", ">", " ", "-", "_", "'"}

\* str.lower(), character by character
LowerLabel(c) == [i \in DOMAIN c |-> IF c[i] = "A" THEN "a" ELSE c[i]]

\* old in c
HasSub(c, old) ==
    \E i \in 1..(Len(c) - Len(old) + 1) : SubSeq(c, i, i + Len(old) - 1) = old

\* c.replace(old, new): the leftmost occurrences that do not overlap
RECURSIVE Replace(_, _, _)
Replace(c, old, new) ==
    IF Len(c) < Len(old) THEN c
    ELSE IF SubSeq(c, 1, Len(old)) = old
         THEN new \o Replace(SubSeq(c, Len(old) + 1, Len(c)), old, new)
         ELSE <<Head(c)>> \o Replace(Tail(c), old, new)

\* while '__' in c: c = c.replace('__', '_')
RECURSIVE CollapseUnderscores(_)
CollapseUnderscores(c) ==
    IF HasSub(c, <<"_", "_">>)
    THEN CollapseUnderscores(Replace(c, <<"_", "_">>, <<"_">>))
    ELSE c

RECURSIVE lstrip(_)
lstrip(c) == IF c # <<>> /\ Head(c) = "_" THEN lstrip(Tail(c)) ELSE c

RECURSIVE rstrip(_)
rstrip(c) ==
    IF c # <<>> /\ c[Len(c)] = "_" THEN rstrip(SubSeq(c, 1, Len(c) - 1)) ELSE c

StripLeadingOnly(c) == lstrip(c)

\* c.strip('_')
strip(c) == rstrip(lstrip(c))

\* the body of the loop over df.columns
NormalizeLabel(label) ==
    LET c1 == LowerLabel(label)
        c2 == Replace(c1, <<"%", "%">>, <<"p", "c", "t">>)
        c3 == Replace(c2, <<"%">>, <<"p", "c", "t">>)
        c4 == Replace(c3, <<"<">>, <<"l", "t">>)
        c5 == Replace(c4, <<">">>, <<"g", "t">>)
        c6 == Replace(c5, <<" ">>, <<"_">>)
        c7 == Replace(c6, <<"-">>, <<"_">>)
        c8 == Replace(c7, <<"'">>, <<>>)
    IN  strip(CollapseUnderscores(c8))

normalize_columns(cols) == [i \in DOMAIN cols |-> NormalizeLabel(cols[i])]

\* the labels of length at most n
RECURSIVE LabelsUpTo(_)
LabelsUpTo(n) ==
    IF n = 0 THEN {<<>>}
    ELSE LET shorter == LabelsUpTo(n - 1)
         IN  shorter \cup {Append(c, ch) : c \in shorter, ch \in LabelChars}

\* a second column next to the one that varies
SecondLabels == {<<"%", "%", " ", "A", "-", "'", "A", "_", "_", ">", " ">>}

\* longer labels that exercise the repeated collapse and the order of the steps
LongLabels ==
    {<<"A", "_", "_", "_", "A">>, <<"A", "_", "_", "_", "_", "_", "A">>,
     <<"A", "_", "'", "_", "A">>, <<"A", " ", "-", " ", "-", "A">>,
     <<"_", "'", "-", "%", "%", "%", " ", "_">>}

LabelLists ==
    LET firsts == LabelsUpTo(MaxLabelLen) \cup LongLabels
    IN  {<<c>> : c \in firsts} \cup {<<c, d>> : c \in firsts, d \in SecondLabels}

NormalizeInit ==
    /\ ScoreIdle
    /\ FetchIdle
    /\ SessionIdle
    /\ SaveIdle
    /\ cache_file = NoTable
    /\ manual_file = EmptyDict
    /\ shown = NoTable
    /\ year = 2025
    /\ month = 1
    /\ today = <<2025, 1, 1>>
    /\ date_range = <<>>
    /\ labels \in LabelLists
    /\ passes = <<>>

\* df = normalize_columns(df)
NormalizeColumns ==
    /\ Len(passes) < 2
    /\ labels' = normalize_columns(labels)
    /\ passes' = Append(passes, labels')
    /\ UNCHANGED <<today, date_range, scoreVars, fetchVars, pageVars, sessionVars,
                   saveVars>>

NormalizeNext == NormalizeColumns

SpecNormalize == NormalizeInit /\ [][NormalizeNext]_vars

(***************************************************************************)
(* Score mapper properties (SpecScore).                                    *)
(***************************************************************************)
\* the breakpoints of the rubric: <60, 60-69, 70-79, 80-89, >=90
RubricScore(p) ==
    IF p < 60 THEN 1 ELSE IF p < 70 THEN 2 ELSE IF p < 80 THEN 3
    ELSE IF p < 90 THEN 4 ELSE 5

\* the breakpoints of the quality rubric: <80, 80-84, 85-89, 90-94, >=95
QualityRubricScore(p) ==
    IF p < 80 THEN 1 ELSE IF p < 85 THEN 2 ELSE IF p < 90 THEN 3
    ELSE IF p < 95 THEN 4 ELSE 5

HasCol(r, c) == c \in DOMAIN df.rows[r]

\* the percentage of row r in column c, missing read as 0
PctAt(r, c) == FillNa0(df.rows[r][c]).val

ScoreAt(r, c) == df.rows[r][c].val

\* C1 (as stated): the quality metric is scored with the same breakpoints as
\* the other two metrics (<60 -> 1, 60-69 -> 2, 70-79 -> 3, 80-89 -> 4,
\* >=90 -> 5) for every integer percentage 0..100.
C1_QualitySameBreakpoints ==
    scored =>
        \A r \in DOMAIN df.rows :
            (HasCol(r, "pct_no_quality_flags") /\ ~df.rows[r]["pct_no_quality_flags"].isna)
                => ScoreAt(r, "quality_score")
                     = RubricScore(PctAt(r, "pct_no_quality_flags"))

\* C1 (amended): the quality metric is scored with its own breakpoints,
\* <80 -> 1, 80-84 -> 2, 85-89 -> 3, 90-94 -> 4, >=95 -> 5, for every integer
\* percentage 0..100; pct_no_quality_flags = 70 gives quality_score = 1.
C1_QualityOwnBreakpoints ==
    scored =>
        \A r \in DOMAIN df.rows :
            (HasCol(r, "pct_no_quality_flags") /\ ~df.rows[r]["pct_no_quality_flags"].isna)
                => ScoreAt(r, "quality_score")
                     = QualityRubricScore(PctAt(r, "pct_no_quality_flags"))

C1_Witness ==
    /\ scored
    /\ \E r \in DOMAIN df.rows :
          /\ HasCol(r, "pct_no_quality_flags")
          /\ df.rows[r]["pct_no_quality_flags"] = Num(70)
          /\ ScoreAt(r, "quality_score") = 1

\* C2: schedule_score (from pct_within_14_16_days) and completion_score (from
\* pct_complete) are 1 below 60, 2 for 60-69, 3 for 70-79, 4 for 80-89 and 5
\* from 90, for every integer percentage 0..100, a missing percentage
\* counting as 0.
C2_ScheduleCompletionBreakpoints ==
    scored =>
        \A r \in DOMAIN df.rows :
            /\ HasCol(r, "pct_within_14_16_days")
                  => ScoreAt(r, "schedule_score")
                       = RubricScore(PctAt(r, "pct_within_14_16_days"))
            /\ HasCol(r, "pct_complete")
                  => ScoreAt(r, "completion_score")
                       = RubricScore(PctAt(r, "pct_complete"))

C2_Witness ==
    /\ scored
    /\ HasCol(1, "pct_complete") /\ HasCol(1, "pct_within_14_16_days")
    /\ df.rows[1]["pct_complete"].isna
    /\ ScoreAt(1, "completion_score") = 1
    /\ df.rows[2]["pct_within_14_16_days"] = Num(60)
    /\ ScoreAt(2, "schedule_score") = 2

ScoreColumnOf(c) ==
    CASE c = "pct_within_14_16_days" -> "schedule_score"
      [] c = "pct_no_quality_flags"  -> "quality_score"
      [] c = "pct_complete"          -> "completion_score"

\* C3: for each automated metric the score is monotonic non-decreasing in the
\* percentage over 0..100 and lies in 1..5 there; every automated score of a
\* scored row is in 0..5.
C3_MonotonicInRange ==
    scored =>
        /\ \A c \in PctColumns : \A r1, r2 \in DOMAIN df.rows :
              (/\ HasCol(r1, c) /\ HasCol(r2, c)
               /\ ~df.rows[r1][c].isna /\ ~df.rows[r2][c].isna
               /\ PctAt(r1, c) <= PctAt(r2, c))
                  => /\ ScoreAt(r1, ScoreColumnOf(c)) <= ScoreAt(r2, ScoreColumnOf(c))
                     /\ ScoreAt(r1, ScoreColumnOf(c)) \in 1..5
                     /\ ScoreAt(r2, ScoreColumnOf(c)) \in 1..5
        /\ \A r \in DOMAIN df.rows :
              \A sc \in {"schedule_score", "quality_score", "completion_score"} :
                  ~df.rows[r][sc].isna /\ ScoreAt(r, sc) \in 0..5

C3_Witness ==
    /\ scored
    /\ \A c \in PctColumns : HasCol(1, c)
    /\ df.rows[1]["pct_complete"] = Num(79)
    /\ df.rows[2]["pct_complete"] = Num(100)
    /\ \A c \in PctColumns :
          ScoreAt(1, ScoreColumnOf(c)) < ScoreAt(2, ScoreColumnOf(c))

(***************************************************************************)
(* Scores of a refreshed table (SpecFetch).                                *)
(***************************************************************************)
SourceColumnOf(sc) ==
    CASE sc = "schedule_score"   -> "pct_within_14_16_days"
      [] sc = "quality_score"    -> "pct_no_quality_flags"
      [] sc = "completion_score" -> "pct_complete"

\* C4: an automated score of a scored table is 0 if and only if the metric's
\* source column is absent; with the source column present it is in 1..5.
C4_ZeroIffColumnAbsent ==
    fetched.status = "ok" =>
        \A r \in DOMAIN fetched.table.rows :
            \A sc \in {"schedule_score", "quality_score", "completion_score"} :
                LET present == SourceColumnOf(sc) \in DOMAIN fetched.table.rows[r]
                    score   == fetched.table.rows[r][sc].val
                IN  /\ (score = 0) <=> ~present
                    /\ present => score \in 1..5

(***************************************************************************)
(* SpecCombine: combine_scores as a pure function of a scored table, a     *)
(* manual-score store and the selected period.                             *)
(***************************************************************************)
MaxRAs == 4

RANames == <<"amina", "brian", "carol", "david", "esther", "faith">>

\* automated score triples (schedule, quality, completion) of the input rows
AutoChoices == {<<5, 5, 5>>, <<5, 5, 0>>}

\* the entry of an RA in the selected period: none, or a triple
ManualChoices == {EmptyDict, Triple(5, 5, 5), Triple(5, 5, 0), Triple(0, 2, 4)}

ScoredColumns == <<"ra_name", "schedule_score", "quality_score", "completion_score">>

ScoredRow(name, auto) ==
    [ra_name |-> name, schedule_score |-> Num(auto[1]),
     quality_score |-> Num(auto[2]), completion_score |-> Num(auto[3])]

\* a store holding `entries` (RA -> triple or EmptyDict for none) under the
\* period key and, when other is TRUE, an entry of another period
StoreOf(key, entries, otherKey, other) ==
    LET have == {r \in DOMAIN entries : entries[r] # EmptyDict}
        mine == IF have = {} THEN EmptyDict
                ELSE [k \in {key} |-> [r \in have |-> entries[r]]]
        rest == IF other THEN [k \in {otherKey} |-> [r \in {"amina"} |-> Triple(1, 1, 1)]]
                ELSE EmptyDict
    IN  Merge(mine, rest)

CombineInit ==
    /\ ToolIdle
    /\ ScoreIdle
    /\ FetchIdle
    /\ SessionIdle
    /\ SaveIdle
    /\ year \in {2024, 2025}
    /\ month = 11
    /\ shown = NoTable
    /\ \E n \in 1..MaxRAs :
         \E auto \in [1..n -> AutoChoices], manual \in [1..n -> ManualChoices],
            other \in BOOLEAN :
            /\ cache_file = [cols |-> ScoredColumns,
                             rows |-> [i \in 1..n |-> ScoredRow(RANames[i], auto[i])]]
            /\ manual_file =
                 StoreOf(MonthKey(2025, 11),
                         [r \in {RANames[i] : i \in 1..n} |->
                             manual[IndexOf(RANames, r)]],
                         MonthKey(2024, 11), other)

\* df = combine_scores(df, manual_scores, month_key)
CombineScores ==
    /\ shown = NoTable
    /\ shown' \in combine_scores(cache_file, load_manual_scores(manual_file),
                                 MonthKey(year, month))
    /\ UNCHANGED <<toolVars, cache_file, manual_file, year, month, scoreVars, fetchVars, sessionVars,
                   saveVars>>

CombineNext == CombineScores

SpecCombine == CombineInit /\ [][CombineNext]_vars

(***************************************************************************)
(* Score combiner properties (SpecCombine).                                *)
(***************************************************************************)
ShownTotals == [r \in DOMAIN shown.rows |-> shown.rows[r]["total_score"].val]

\* C5: in every row of the combined table total_score is the sum of the six
\* ordinal scores of that row and lies in 0..30.
C5_TotalIsSumOfSix ==
    \A r \in DOMAIN shown.rows :
        LET row == shown.rows[r]
        IN  /\ row["total_score"].val
                 = row["schedule_score"].val + row["quality_score"].val
                   + row["completion_score"].val + row["journal_score"].val
                   + row["feedback_score"].val + row["team_score"].val
            /\ row["total_score"].val \in 0..30

C5_Witness ==
    /\ \E r \in DOMAIN shown.rows : ShownTotals[r] = 30
    /\ \E r \in DOMAIN shown.rows :
          /\ ShownTotals[r] = 16
          /\ shown.rows[r]["completion_score"].val = 0
          /\ shown.rows[r]["team_score"].val = 4

\* C6: the rank of a row is 1 + the number of rows with a strictly greater
\* total_score, so equal totals share a rank and the next distinct total
\* skips the tied positions (totals 30, 25, 25, 10 rank 1, 2, 2, 4).
C6_MinRank ==
    \A r \in DOMAIN shown.rows :
        shown.rows[r]["rank"].val
            = 1 + Cardinality({j \in DOMAIN shown.rows : ShownTotals[j] > ShownTotals[r]})

C6_Witness ==
    /\ ShownTotals = <<30, 25, 25, 10>>
    /\ [r \in DOMAIN shown.rows |-> shown.rows[r]["rank"].val] = <<1, 2, 2, 4>>

(***************************************************************************)
(* Manual-score store properties (Spec).                                   *)
(***************************************************************************)
\* the RAs with an entry under the period key
EntriesOf(manual, key) == DOMAIN DictGet(manual, key, EmptyDict)

\* the RAs with an entry in some period
StoredRAs(manual) == UNION {DOMAIN manual[k] : k \in DOMAIN manual}

\* the manual scores of a row of a combined table
ManualOf(row) ==
    Triple(row["journal_score"].val, row["feedback_score"].val, row["team_score"].val)

\* every triple read for the period is all zero
AllZero(manual, key) ==
    \A ra \in EntriesOf(manual, key) : TripleRead(manual, key, ra) = ZeroTriple

\* the tables main can show for the period key from the two files
CombinedFor(key) ==
    combine_scores(load_cached_data(cache_file), load_manual_scores(manual_file), key)

\* C7: after an admin entry for (period P, RA r) is saved, loading the store
\* and combining the scores for P gives exactly the entered triple for r;
\* for a (period, RA) with no stored entry the combined journal, feedback
\* and team scores are all 0.
C7_StoreRoundTrip ==
    cache_file # NoTable =>
        /\ last_event.cause = "edit" =>
              \A t \in CombinedFor(last_event.key) :
                  /\ last_event.ra \in NamesOf(t)
                  /\ \A i \in DOMAIN t.rows :
                        t.rows[i]["ra_name"] = last_event.ra
                            => ManualOf(t.rows[i]) = last_event.entered
        /\ \A P \in Periods : \A t \in CombinedFor(P) : \A i \in DOMAIN t.rows :
              t.rows[i]["ra_name"] \notin EntriesOf(manual_file, P)
                  => ManualOf(t.rows[i]) = ZeroTriple

C7_Witness ==
    /\ last_event.cause = "edit"
    /\ last_event.kind = "rerun"
    /\ last_event.entered["journal"] = 5
    /\ last_event.entered["team"] = 5
    /\ \E t \in CombinedFor(last_event.key) : \E i \in DOMAIN t.rows :
          /\ t.rows[i]["ra_name"] = last_event.ra
          /\ ManualOf(t.rows[i]) = Triple(5, 0, 5)
    /\ \E P \in Periods : \E ra \in NamesOf(cache_file) :
          ra \notin EntriesOf(manual_file, P)

\* C8: a reset of period P leaves no non-zero triple for any RA of P and
\* leaves the entries of every other period as they were; from then on
\* every triple read for P stays all zero until the admin enters a score
\* for P.
C8_ResetClearsPeriodOnly ==
    [][/\ last_event'.kind = "reset" =>
             /\ \A ra \in StoredRAs(manual_file) :
                   TripleRead(manual_file', last_event'.key, ra) = ZeroTriple
             /\ \A P \in (DOMAIN manual_file) \ {last_event'.key} :
                   /\ P \in DOMAIN manual_file'
                   /\ manual_file'[P] = manual_file[P]
             /\ (DOMAIN manual_file') \ {last_event'.key} \subseteq DOMAIN manual_file
       /\ \A P \in Periods :
             (AllZero(manual_file, P)
                 /\ ~(last_event'.kind = "edit" /\ last_event'.key = P))
                 => AllZero(manual_file', P)]_vars

C8_Witness ==
    /\ last_event.cause = "reset"
    /\ last_event.kind = "rerun"
    /\ ~rerun
    /\ last_event.prior > 0
    /\ EntriesOf(manual_file, last_event.key) = NamesOf(cache_file)
    /\ AllZero(manual_file, last_event.key)
    /\ \E P \in Periods \ {last_event.key} : ~AllZero(manual_file, P)

\* C9: the triple read for a (period, RA) changes only in a step where the
\* admin enters a score for that period and RA or resets that period:
\* selecting a month, a rerun, a refresh, a password entry or a logout
\* never changes it and never creates a non-zero triple.
C9_ChangeOnlyByEntryOrReset ==
    [][\A P \in (DOMAIN manual_file) \cup (DOMAIN manual_file') \cup Periods :
          \A ra \in StoredRAs(manual_file) \cup StoredRAs(manual_file') :
              TripleRead(manual_file', P, ra) # TripleRead(manual_file, P, ra)
                  => \/ /\ last_event'.kind = "edit"
                        /\ last_event'.key = P
                        /\ last_event'.ra = ra
                     \/ /\ last_event'.kind = "reset"
                        /\ last_event'.key = P]_vars

C9_Witness ==
    /\ last_event.cause = "select"
    /\ last_event.kind = "rerun"
    /\ ~rerun
    /\ EntriesOf(manual_file, MonthKey(year, month)) = NamesOf(cache_file)
    /\ AllZero(manual_file, MonthKey(year, month))
    /\ \E P \in Periods \ {MonthKey(year, month)} : ~AllZero(manual_file, P)

\* C10: a save that is not a reset loses no recorded entry: every entry
\* stored before it, other than the one the admin is entering, is stored
\* after it with the same triple, be it of another RA of the period, of an
\* RA that is not in the current table, or of another period.
C10_SaveKeepsEntries ==
    [][last_event'.kind # "reset" =>
          \A P \in DOMAIN manual_file : \A ra \in DOMAIN manual_file[P] :
              ~(last_event'.kind = "edit" /\ last_event'.key = P /\ last_event'.ra = ra)
                  => /\ P \in DOMAIN manual_file'
                     /\ ra \in DOMAIN manual_file'[P]
                     /\ manual_file'[P][ra] = manual_file[P][ra]]_vars

C10_Witness ==
    /\ last_event.kind = "edit"
    /\ \E ra \in EntriesOf(manual_file, last_event.key) \ NamesOf(cache_file) :
          TripleRead(manual_file, last_event.key, ra) # ZeroTriple
    /\ \E P \in Periods \ {last_event.key} : EntriesOf(manual_file, P) # {}
    /\ TripleRead(manual_file, last_event.key, last_event.ra) = last_event.entered

\* C25: the table shown for the selected period combines the manual scores
\* of that period with metrics that a refresh computed for that same
\* period, never with metrics cached by a refresh of another period.
C25_ShownMetricsOfSelectedPeriod ==
    shown # NoTable => cache_period = MonthKey(year, month)

\* C26: the admin flag becomes true only in a run whose password field
\* holds the admin password, it is false after the run that follows a
\* logout, and a run that leaves the flag false does not change the
\* manual-score store.
C26_AdminFlag ==
    [][/\ (is_admin' /\ ~is_admin) => password' = ADMIN_PASSWORD
       /\ last_event.kind = "logout" => ~is_admin'
       /\ ~is_admin' => manual_file' = manual_file]_vars

\* C27: the save-and-rerun loop ends: the run that follows the save of an
\* entry saves nothing and queues no rerun, the second of two queued runs
\* in a row saves nothing and queues no rerun, and once no run is queued
\* every RA of the table has a stored triple equal to the one shown.
C27_SaveLoopEnds ==
    [][/\ (last_event'.kind = "rerun" /\ last_event.kind \in {"edit", "rerun"})
             => manual_file' = manual_file /\ ~rerun'
       /\ (~rerun' /\ is_admin' /\ shown' # NoTable) =>
             \A i \in DOMAIN shown'.rows :
                LET ra == shown'.rows[i]["ra_name"]
                IN  /\ ra \in EntriesOf(manual_file', MonthKey(year', month'))
                    /\ TripleRead(manual_file', MonthKey(year', month'), ra)
                          = ManualOf(shown'.rows[i])]_vars

C27_Witness ==
    /\ last_event.cause = "reset"
    /\ last_event.kind = "rerun"
    /\ last_event.prior > 0
    /\ ~rerun
    /\ is_admin
    /\ edits = MaxEdits
    /\ Cardinality(NamesOf(shown)) = 2
    /\ \A ra \in NamesOf(shown) :
          /\ ra \in EntriesOf(manual_file, MonthKey(year, month))
          /\ TripleRead(manual_file, MonthKey(year, month), ra) = ZeroTriple

(***************************************************************************)
(* Refresh properties (SpecRefresh, SpecFetch).                            *)
(***************************************************************************)
\* the refresh cannot get a table: the database is disabled, the completion
\* query fails (missing SQL file, raising query), the completion feed is
\* empty or it has no RA column
RefreshFails ==
    \/ "disabled" \in feed_errors
    \/ "completion" \in feed_errors
    \/ completion_feed = <<>>
    \/ RA_COLUMN \notin completion_cols

\* C11: a refresh that fails returns an empty table and leaves the cache
\* file as it was; the cache file changes only in a refresh that got a
\* table, and then it holds the aggregated and scored table.
C11_FailedRefreshKeepsCache ==
    [][/\ RefreshFails => fetched'.status = "empty"
       /\ fetched'.status # "ok" => cache_file' = cache_file
       /\ cache_file' # cache_file =>
             /\ fetched'.status = "ok"
             /\ cache_file' = fetched'.table
             /\ \A r \in DOMAIN cache_file'.rows :
                   {"schedule_score", "quality_score", "completion_score"}
                       \subseteq DOMAIN cache_file'.rows[r]]_vars

C11_Witness ==
    /\ fetched.status = "empty"
    /\ "completion" \in feed_errors
    /\ completion_feed # <<>>
    /\ completion_cols = AllCompletionCols
    /\ cache_file = PriorCache

\* C12: when the query of either feed fails, the completion feed or the
\* quality feed, fetch_all_metrics returns an empty table and never a table
\* built from the feed that did succeed.
C12_FeedFailureReturnsNothing ==
    (fetched.status # "none" /\ feed_errors \cap {"completion", "quality"} # {})
        => fetched.status = "empty"

\* the spellings of the excluded identities among the RA identities
ExcludedSpellings == {"julie", "Julie", "cate", "Cate"}

\* the rows of the table returned by the refresh of the state
FetchedRows == IF fetched.status = "ok" THEN fetched.table.rows ELSE <<>>

PctNames ==
    {"pct_complete", "pct_no_quality_flags", "pct_lt5pct_imbalance",
     "pct_within_14_16_days"}

\* C14: in every row of the table of fetch_all_metrics the four percentages
\* are integers in 0..100; pct_no_quality_flags and pct_lt5pct_imbalance
\* are never negative.
C14_PercentagesInRange ==
    \A k \in DOMAIN FetchedRows : \A c \in PctNames :
        /\ c \in DOMAIN FetchedRows[k]
        /\ ~FetchedRows[k][c].isna
        /\ FetchedRows[k][c].val \in 0..100

\* the RAs left after the exclusion whose household code is null in every
\* completion row, so that their total_interviews is 0
ZeroInterviewRAs ==
    {completion_feed[i].ra : i \in DOMAIN completion_feed} \
    ({completion_feed[i].ra : i \in {j \in DOMAIN completion_feed :
                                        completion_feed[j].hh # Null}}
     \cup ExcludedSpellings)

\* C15: for an RA whose total_interviews is 0 fetch_all_metrics does not
\* raise and gives 0 for every percentage of that RA.
C15_ZeroInterviewsGiveZero ==
    (fetched.status # "none" /\ ZeroInterviewRAs # {}) =>
        /\ fetched.status = "ok"
        /\ \A k \in DOMAIN FetchedRows :
              FetchedRows[k]["ra_name"] \in ZeroInterviewRAs
                  => \A c \in PctNames : FetchedRows[k][c] = Num(0)

\* the RA identities of the completion rows that the exclusion keeps
KeptRAs ==
    {completion_feed[i].ra :
        i \in {j \in DOMAIN completion_feed :
                  completion_feed[j].ra \notin ExcludedSpellings}}

\* C16: every ra_name of the returned table is the RA identity of a
\* completion row that is not excluded; an RA that occurs only in the
\* quality feed or only in the cashflow, answer or schedule statistics is
\* in no row.
C16_RowsComeFromCompletionFeed ==
    \A k \in DOMAIN FetchedRows : FetchedRows[k]["ra_name"] \in KeptRAs

C16_Witness ==
    /\ fetched.status = "ok"
    /\ NamesOf(fetched.table) = {"brian"}
    /\ \E q \in quality_feed : q.ra = "amina"
    /\ \E c \in cf_feed.rows : c.ra_name = "amina"
    /\ \E a \in ans_feed.rows : a.ra_name = "amina"
    /\ \E x \in interval_feed.rows : x.ra_name = "amina"

\* the completion rows counted for total_interviews of the RA name
CountedRows(name) ==
    {i \in DOMAIN completion_feed :
        /\ completion_feed[i].ra = name
        /\ ({STATUS_COLUMN, HOUSEHOLD_COLUMN} \subseteq completion_cols
               => completion_feed[i].hh # Null)}

\* C17: no row of the returned table has an ra_name whose lowercase form is
\* excluded, and total_interviews and complete_count of a row count only
\* the completion rows of that very RA, so the rows of an excluded identity
\* add to no RA, whatever the letter case of the identity.
C17_ExcludedNeverCounted ==
    \A k \in DOMAIN FetchedRows :
        LET row == FetchedRows[k]
        IN  /\ row["ra_name"] \notin ExcludedSpellings
            /\ row["total_interviews"].val = Cardinality(CountedRows(row["ra_name"]))
            /\ "complete_count" \in DOMAIN row =>
                  row["complete_count"].val =
                      Cardinality({i \in DOMAIN completion_feed :
                                     /\ completion_feed[i].ra = row["ra_name"]
                                     /\ completion_feed[i].status = "Complete"})

C17_Witness ==
    /\ fetched.status = "ok"
    /\ completion_cols = AllCompletionCols
    /\ Len(completion_feed) = 2
    /\ completion_feed[1].ra = "Julie"
    /\ completion_feed[1].status = "Complete"
    /\ NamesOf(fetched.table) = {"amina"}
    /\ fetched.table.rows[1]["total_interviews"] = Num(1)
    /\ fetched.table.rows[1]["complete_count"] = Num(0)

MetricNames ==
    {"total_interviews", "total_cfs", "avg_answers"} \cup PctNames

\* C18: the returned table has exactly one row per RA and in every row each
\* metric is present and not missing; total_cfs and avg_answers are 0 when
\* the cashflow or answer query fails, total_cfs, avg_answers and
\* pct_within_14_16_days are 0 for an RA without rows in the cashflow,
\* answer or schedule statistics.
C18_OneFullRowPerRA ==
    fetched.status = "ok" =>
        /\ NamesOf(fetched.table) = KeptRAs
        /\ Len(FetchedRows) = Cardinality(KeptRAs)
        /\ \A k \in DOMAIN FetchedRows :
              LET row == FetchedRows[k]
                  ra  == row["ra_name"]
              IN  /\ \A c \in MetricNames : c \in DOMAIN row /\ ~row[c].isna
                  /\ (cf_feed.failed \/ ans_feed.failed) =>
                        row["total_cfs"].val = 0 /\ row["avg_answers"].val = 0
                  /\ (\A x \in cf_feed.rows : x.ra_name # ra) => row["total_cfs"].val = 0
                  /\ (\A x \in ans_feed.rows : x.ra_name # ra) => row["avg_answers"].val = 0
                  /\ (interval_feed.failed \/ \A x \in interval_feed.rows : x.ra_name # ra)
                        => row["pct_within_14_16_days"].val = 0

C18_Witness ==
    /\ fetched.status = "ok"
    /\ NamesOf(fetched.table) = {"amina", "brian"}
    /\ \E k \in DOMAIN FetchedRows :
          /\ FetchedRows[k]["ra_name"] = "amina"
          /\ FetchedRows[k]["total_cfs"] = Num(3)
          /\ FetchedRows[k]["avg_answers"] = Num(3)
    /\ \E k \in DOMAIN FetchedRows :
          /\ FetchedRows[k]["ra_name"] = "brian"
          /\ FetchedRows[k]["total_cfs"] = Num(0)
          /\ FetchedRows[k]["avg_answers"] = Num(0)
          /\ FetchedRows[k]["total_answers"].isna
          /\ FetchedRows[k]["pct_within_14_16_days"] = Num(0)

\* the completion rows of the RA name
RowsOfRA(name) == {i \in DOMAIN completion_feed : completion_feed[i].ra = name}

\* C21: for every RA of the returned table total_interviews is the number
\* of that RA's completion rows, and pct_complete is the rounded share of
\* those rows whose status is "Complete" when the feed has a status column,
\* and 0 when it has none.
C21_CompletionCounts ==
    \A k \in DOMAIN FetchedRows :
        LET row   == FetchedRows[k]
            mine  == RowsOfRA(row["ra_name"])
            done  == {i \in mine : completion_feed[i].status = "Complete"}
        IN  /\ row["total_interviews"].val = Cardinality(mine)
            /\ row["pct_complete"].val =
                  IF STATUS_COLUMN \in completion_cols
                  THEN PctRound(Cardinality(done), Cardinality(mine))
                  ELSE 0

(***************************************************************************)
(* Column lookup properties (SpecLookup).                                  *)
(***************************************************************************)
\* the quality rows of the RA name, by the RA column the aggregator groups on
IssueRowsOf(name) ==
    {r \in quality_table.rows : r[QualityRaColumn(quality_table.cols)] = name}

\* the interviews of a set of quality rows: (household, interview date)
\* pairs, or households when there is no interview date column
InterviewsOf(rows) ==
    IF InterviewDateColumn(quality_table.cols) # ""
    THEN {<<r["household_code"], r["interview_date"]>> : r \in rows}
    ELSE {<<r["household_code"]>> : r \in rows}

RaColumnByPrecedence(cols) ==
    LET first(S) == IF \E i \in DOMAIN cols : cols[i] \in S
                    THEN cols[CHOOSE i \in DOMAIN cols :
                                /\ cols[i] \in S
                                /\ \A j \in 1..(i - 1) : cols[j] \notin S]
                    ELSE ""
    IN  IF first({"interviewer"}) # "" THEN first({"interviewer"})
        ELSE first({"ra_name", "duration"})

\* C23: the grouping of the completion feed and the grouping of the quality
\* feed both take as RA identity column the first column whose name
\* contains "interviewer", else the first whose name contains "ra"; when
\* the completion feed has neither, the aggregation returns no rows.
C23_SameRaColumnPrecedence ==
    fetched.status # "none" =>
        /\ CompletionRaColumn(completion_table.cols)
              = RaColumnByPrecedence(completion_table.cols)
        /\ QualityRaColumn(quality_table.cols) = RaColumnByPrecedence(quality_table.cols)
        /\ RaColumnByPrecedence(completion_table.cols) = "" => fetched.status = "empty"
        /\ \A k \in DOMAIN FetchedRows :
              /\ \E i \in DOMAIN completion_table.rows :
                    completion_table.rows[i][RaColumnByPrecedence(completion_table.cols)]
                        = FetchedRows[k]["ra_name"]
              /\ (/\ quality_table.rows # {}
                  /\ RaColumnByPrecedence(quality_table.cols) # ""
                  /\ "household_code" \in Range(quality_table.cols))
                    => "interviews_with_issues" \in DOMAIN FetchedRows[k]

\* C24: when the quality feed is empty or has no RA column or no household
\* code column, every RA of the result has pct_no_quality_flags = 100 and
\* pct_lt5pct_imbalance = 100 and the aggregation gives a table whenever
\* the completion feed has an RA column and a row of an RA; with a usable
\* quality feed an RA without quality rows has interviews_with_issues = 0.
C24_QualityDefaults ==
    fetched.status # "none" =>
        /\ (\/ quality_table.rows = {}
            \/ \A c \in Range(quality_table.cols) : c \notin {"ra_name", "duration"}
            \/ "household_code" \notin Range(quality_table.cols))
              => /\ \A k \in DOMAIN FetchedRows :
                       /\ FetchedRows[k]["pct_no_quality_flags"] = Num(100)
                       /\ FetchedRows[k]["pct_lt5pct_imbalance"] = Num(100)
                 /\ fetched.status = "ok" <=>
                       \E i \in DOMAIN completion_table.rows :
                          LET c == RaColumnByPrecedence(completion_table.cols)
                          IN  /\ c # ""
                              /\ completion_table.rows[i][c] \notin ExcludedSpellings
        /\ \A k \in DOMAIN FetchedRows :
              (/\ "interviews_with_issues" \in DOMAIN FetchedRows[k]
               /\ \A r \in quality_table.rows :
                     \A c \in {"ra_name", "duration"} :
                        c \in DOMAIN r => r[c] # FetchedRows[k]["ra_name"])
                 => /\ FetchedRows[k]["interviews_with_issues"] = Num(0)
                    /\ FetchedRows[k]["pct_no_quality_flags"] = Num(100)

C24_Witness ==
    /\ fetched.status = "ok"
    /\ NamesOf(fetched.table) = {"amina"}
    /\ quality_table.cols = <<"ra_name", "interview_date", "issue_description">>
    /\ \E r \in quality_table.rows : r["ra_name"] = "amina"
    /\ fetched.table.rows[1]["pct_no_quality_flags"] = Num(100)
    /\ fetched.table.rows[1]["pct_lt5pct_imbalance"] = Num(100)
    /\ "interviews_with_issues" \notin DOMAIN fetched.table.rows[1]

(***************************************************************************)
(* Persistence properties (SpecSave).                                      *)
(***************************************************************************)
\* the content persisted by the last save that succeeded
Persisted == IF writer.file = "manual" THEN manual_file ELSE cache_file

\* C13: after a save, failed or not, a load returns the complete old
\* content or the complete new content, never an error and never a part.
C13_SaveIsAtomic ==
    loaded.status # "none" =>
        /\ loaded.status = "ok"
        /\ loaded.value \in {Persisted, writer.new}

(***************************************************************************)
(* Date range properties (SpecDate).                                       *)
(***************************************************************************)
\* the number of days of each month of a common year
CalendarDays == <<31, 28, 31, 30, 31, 30, 31, 31, 30, 31, 30, 31>>

LastDayOf(y, m) == IF m = 2 /\ y \in {2024} THEN 29 ELSE CalendarDays[m]

\* C19: start is the first day of the selected month; end is the last
\* calendar day of that month, 31 December of the same year for December,
\* unless the selected month and year are the current ones, and then end
\* is today's date.
C19_DateRange ==
    date_range # <<>> =>
        /\ date_range[1] = strftime(<<year, month, 1>>)
        /\ date_range[2] =
              IF year = today[1] /\ month = today[2] THEN strftime(today)
              ELSE strftime(<<year, month, LastDayOf(year, month)>>)

C19_Witness ==
    /\ year = 2024
    /\ month = 12
    /\ today = <<2025, 12, 15>>
    /\ date_range = <<<<"2", "0", "2", "4", "-", "1", "2", "-", "0", "1">>,
                      <<"2", "0", "2", "4", "-", "1", "2", "-", "3", "1">>>>

(***************************************************************************)
(* Column label properties (SpecNormalize).                                *)
(***************************************************************************)
\* the characters an output label may not contain
ForbiddenChars == {"A", "%", "<", ">", " ", "-", "'"}

CleanLabel(c) ==
    /\ \A i \in DOMAIN c : c[i] \notin ForbiddenChars
    /\ \A i \in 1..(Len(c) - 1) : ~(c[i] = "_" /\ c[i + 1] = "_")
    /\ c # <<>> => (c[1] # "_" /\ c[Len(c)] # "_")

\* C20: normalizing the result of normalize_columns again returns the same
\* labels, and every output label is lowercase, has none of the characters
\* % < > space - apostrophe, no two consecutive underscores, and no
\* underscore at either end.
C20_NormalizeIdempotent ==
    /\ \A k \in DOMAIN passes : \A i \in DOMAIN passes[k] : CleanLabel(passes[k][i])
    /\ Len(passes) = 2 => passes[2] = passes[1]

C20_Witness ==
    /\ Len(passes) = 2
    /\ passes[1] = <<<<"a", "_", "p", "c", "t">>,
                     <<"p", "c", "t", "_", "a", "_", "a", "_", "g", "t">>>>
    /\ passes[2] = passes[1]

====
